---- MODULE Spec2Model ----
(***************************************************************************)
(* Model of the replication planner of core/sling/replication.go:          *)
(* UnmarshalReplication, SetStreamDefaults, ProcessWildcards, Compile,     *)
(* RuntimeState.                                                           *)
(*                                                                         *)
(* Strings that the code inspects character by character (stream keys,     *)
(* selector tokens, tags, ids) are sequences of one-character strings.     *)
(* The object template is a sequence of lexemes in which a placeholder     *)
(* such as {stream_table} is one lexeme, so strings.Contains(object,       *)
(* "{stream_table}") is membership of that lexeme.  A Go pointer is a      *)
(* sequence of length at most one: <<>> is nil, <<v>> points to v.         *)
(***************************************************************************)
EXTENDS Integers, Sequences, FiniteSets, TLC

----------------------------------------------------------------------------
(* Bounds *)

MaxStreams == 2      \* streams in a YAML document with arbitrary stream mappings
MaxOrder == 4        \* streams in a YAML document of the ordering family
MaxCalls == 2        \* Compile calls on one ReplicationConfig
MaxTouchCalls == 1   \* Compile calls after which the caller still changes a task or a run
MaxEdits == 2        \* AddStream, DeleteStream and ProcessWildcards calls on one config
NumCallers == 2      \* goroutines that call ExecContext and StreamContext on one DuckDb
MaxQueries == 3      \* queries that the callers of one DuckDb start

----------------------------------------------------------------------------
(* Strings *)

Range(s) == {s[i] : i \in 1..Len(s)}

ToLowerChar(c) ==
  CASE c = "A" -> "a" [] c = "B" -> "b" [] c = "C" -> "c" [] c = "D" -> "d"
    [] c = "I" -> "i" [] c = "S" -> "s" [] c = "T" -> "t" [] c = "X" -> "x"
    [] OTHER -> c

ToLower(n) == [i \in 1..Len(n) |-> ToLowerChar(n[i])]

ReplaceAllEmpty(n, c) == SelectSeq(n, LAMBDA x : x # c)

\* the back quote character (the parser does not accept it inside a string)
Backtick == "<backtick>"
DoubleQuote == "\""

Normalize(n) == ToLower(ReplaceAllEmpty(ReplaceAllEmpty(n, Backtick), DoubleQuote))

HasPrefix(s, p) == Len(s) >= Len(p) /\ SubSeq(s, 1, Len(p)) = p

TrimPrefix(s, p) == IF HasPrefix(s, p) THEN SubSeq(s, Len(p) + 1, Len(s)) ELSE s

Contains(s, c) == c \in Range(s)

hasWildcard(name) == Contains(name, "*") \/ Contains(name, "?")

RECURSIVE GlobMatch(_, _)
GlobMatch(p, s) ==
  IF p = <<>> THEN s = <<>>
  ELSE IF Head(p) = "*"
       THEN GlobMatch(Tail(p), s) \/ (s # <<>> /\ GlobMatch(p, Tail(s)))
       ELSE s # <<>> /\ (Head(p) = "?" \/ Head(p) = Head(s))
                     /\ GlobMatch(Tail(p), Tail(s))

IsAlnum(c) == c \in {"a", "b", "c", "d", "i", "s", "t", "x", "1",
                     "A", "B", "C", "D", "I", "S", "T", "X"}

CleanName(n) == [i \in 1..Len(n) |-> IF IsAlnum(n[i]) THEN n[i] ELSE "_"]

TagPrefix == <<"t", "a", "g", ":">>
NotTagPrefix == <<"-", "t", "a", "g", ":">>

----------------------------------------------------------------------------
(* Pointers *)

Nil == <<>>
Ptr(v) == <<v>>
PtrVal(p, zero) == IF p = Nil THEN zero ELSE p[1]

----------------------------------------------------------------------------
(* ReplicationStreamConfig, keyed by its yaml/json tags *)

SourceOptionsZero == [limit |-> Nil]
TargetOptionsZero == [file_max_bytes |-> Nil, file_max_rows |-> Nil]

HookMapZero == [pre |-> <<>>, post |-> <<>>]

ReplicationStreamConfig ==
  [id |-> <<>>, mode |-> "", object |-> <<>>, select |-> <<>>, where |-> "",
   primary_key |-> <<>>, update_key |-> "", sql |-> "", tags |-> <<>>,
   source_options |-> Nil, target_options |-> Nil, schedule |-> "",
   disabled |-> FALSE, single |-> Nil, transforms |-> <<>>, columns |-> <<>>,
   hooks |-> HookMapZero]

StreamVars == {"{stream_table}", "{stream_name}", "{stream_file_path}", "{stream_file_name}"}

ObjectHasStreamVars(s) == \E v \in StreamVars : Contains(s.object, v)

\* SourceOptions.SetDefaults / TargetOptions.SetDefaults: a nil field takes the default
SetDefaults(opts, defaults) ==
  [f \in DOMAIN opts |-> IF opts[f] = Nil THEN defaults[f] ELSE opts[f]]

\* json.Marshal with omitempty: the keys that a stream config serialises to
IsEmptyValue(k, v) ==
  CASE k \in {"mode", "where", "update_key", "sql", "schedule"} -> v = ""
    [] k = "disabled" -> v = FALSE
    [] k = "hooks" -> FALSE
    [] OTHER -> v = <<>>

MarshalKeys(cfg) == {k \in DOMAIN cfg : ~IsEmptyValue(k, cfg[k])}

----------------------------------------------------------------------------
(* ReplicationConfig: a record                                              *)
(*   [Source, Target, Defaults, Streams, Tasks, Compiled, streamsOrdered,   *)
(*    maps, state]                                                          *)
(* Streams maps a stream key to a pointer to its config (Nil for a null     *)
(* YAML value); maps.Streams maps a stream key to the set of keys of its    *)
(* raw YAML mapping.                                                        *)

MapGet(m, k, zero) == IF k \in DOMAIN m THEN m[k] ELSE zero

MapPut(m, k, v) == [x \in DOMAIN m \cup {k} |-> IF x = k THEN v ELSE m[x]]

MapDelete(m, k) == [x \in DOMAIN m \ {k} |-> m[x]]

DefaultSetKeys == {"mode", "object", "select", "where", "primary_key", "update_key",
                   "sql", "schedule", "tags", "disabled", "single", "transforms",
                   "columns", "hooks"}

\* the option bag of a stream after defaulting
DefaultedOptions(opts, defaults, zero) ==
  IF opts = Nil THEN Ptr(PtrVal(defaults, zero))
  ELSE IF defaults # Nil THEN Ptr(SetDefaults(opts[1], defaults[1]))
  ELSE opts

SetStreamDefaults(name, stream, replicationCfg) ==
  LET streamMap == MapGet(replicationCfg.maps.Streams, name, {})
      d == replicationCfg.Defaults
      defaultSet(key) == IF key = "single" THEN Ptr(PtrVal(d.single, FALSE)) ELSE d[key]
  IN [k \in DOMAIN stream |->
        IF k \in DefaultSetKeys
        THEN (IF k \in streamMap THEN stream[k] ELSE defaultSet(k))
        ELSE IF k = "source_options"
        THEN DefaultedOptions(stream.source_options, d.source_options, SourceOptionsZero)
        ELSE IF k = "target_options"
        THEN DefaultedOptions(stream.target_options, d.target_options, TargetOptionsZero)
        ELSE stream[k]]

\* SetStreamDefaults works on a shallow copy of the stream: an option bag the
\* stream already has is shared with the copy, and SetDefaults fills it in place
ShareOptions(rd, name) ==
  LET p == MapGet(rd.Streams, name, Nil) IN
  IF p = Nil THEN rd
  ELSE LET s == p[1]
           merged == [s EXCEPT
             !.source_options = IF @ = Nil THEN @
                                ELSE DefaultedOptions(@, rd.Defaults.source_options, SourceOptionsZero),
             !.target_options = IF @ = Nil THEN @
                                ELSE DefaultedOptions(@, rd.Defaults.target_options, TargetOptionsZero)]
       IN [rd EXCEPT !.Streams = MapPut(@, name, Ptr(merged))]

GetStream(rd, name) == {k \in DOMAIN rd.Streams : Normalize(k) = Normalize(name)}

AddStream(rd, key, cfg) ==
  LET newCfg == PtrVal(cfg, ReplicationStreamConfig)
      mapEntry == IF cfg = Nil THEN {} ELSE MarshalKeys(cfg[1])
  IN [rd EXCEPT !.Streams = MapPut(@, key, Ptr(newCfg)),
                !.streamsOrdered = Append(@, key),
                !.maps = [@ EXCEPT !.Streams =
                            IF key \in DOMAIN @ THEN @ ELSE MapPut(@, key, mapEntry)]]

DeleteStream(rd, key) ==
  [rd EXCEPT !.Streams = MapDelete(@, key),
             !.streamsOrdered = SelectSeq(@, LAMBDA v : v # key)]

\* MatchStreams dereferences the config of every stream whose key is not equal
\* to the pattern: a null stream makes it panic
MatchStreamsPanics(rd, pattern) ==
  \E k \in DOMAIN rd.Streams :
     Normalize(k) # Normalize(pattern) /\ rd.Streams[k] = Nil

\* a match that takes every stream for every pattern
MatchEveryStream(rd, pattern) == DOMAIN rd.Streams

MatchStreams(rd, pattern) ==
  {k \in DOMAIN rd.Streams :
     \/ Normalize(k) = Normalize(pattern)
     \/ (rd.Streams[k] # Nil /\ rd.Streams[k][1].id = pattern)
     \/ GlobMatch(ToLower(pattern), ToLower(Normalize(k)))}

----------------------------------------------------------------------------
(* UnmarshalReplication.  A YAML document is                                *)
(*   [defaults |-> mapping, order |-> keys in document order,               *)
(*    streams |-> key -> YamlNull or <<mapping>>]                           *)
(* where a mapping is a function from yaml keys to values.                  *)

YamlNull == <<>>

makeColumns(nodes) == [i \in 1..Len(nodes) |-> [name |-> nodes[i][1], type |-> nodes[i][2]]]

UnmarshalStream(m) ==
  [k \in DOMAIN ReplicationStreamConfig |->
     IF k \notin DOMAIN m THEN ReplicationStreamConfig[k]
     ELSE IF k = "columns" THEN makeColumns(m[k])
     ELSE m[k]]

UnmarshalReplication(yaml, source) ==
  [Source |-> source,
   Target |-> "TGT",
   Defaults |-> UnmarshalStream(yaml.defaults),
   Streams |-> [k \in Range(yaml.order) |->
                  IF yaml.streams[k] = YamlNull THEN Nil
                  ELSE Ptr(UnmarshalStream(yaml.streams[k][1]))],
   Tasks |-> <<>>,
   Compiled |-> FALSE,
   streamsOrdered |-> yaml.order,
   maps |-> [Defaults |-> DOMAIN yaml.defaults,
             Streams |-> [k \in Range(yaml.order) |->
                            IF yaml.streams[k] = YamlNull THEN {}
                            ELSE DOMAIN yaml.streams[k][1]]],
   state |-> Nil]

----------------------------------------------------------------------------
(* The environment of a ReplicationConfig: the record                       *)
(*   [conn, catalog, prepareFail, streamCnt, tasksEnv]                      *)
(* conn is what the lookup of rd.Source yields, catalog is what the         *)
(* Discoverer answers for a pattern ([err, ok, items], an item being        *)
(* [name, uri]), prepareFail is the set of streams whose task the           *)
(* TaskPreparer rejects, streamCnt is SLING_STREAM_CNT, tasksEnv is         *)
(* SLING_REPLICATION_TASKS.                                                 *)

NoDiscovery == [err |-> FALSE, ok |-> FALSE, items |-> <<>>]

Discover(world, pattern) == MapGet(world.catalog, pattern, NoDiscovery)

\* database.ParseTableName: the schema is what precedes the first dot
RECURSIVE ParseSchema(_)
ParseSchema(pattern) ==
  IF ~Contains(pattern, ".") THEN <<>>
  ELSE IF Head(pattern) = "." THEN <<>>
  ELSE <<Head(pattern)>> \o ParseSchema(Tail(pattern))

ItemNames(items) == [i \in 1..Len(items) |-> items[i].name]

\* the map name -> item: a later item replaces an earlier one of the same name
ItemMap(items) ==
  [n \in Range(ItemNames(items)) |->
     items[CHOOSE i \in 1..Len(items) :
             items[i].name = n /\ \A j \in (i + 1)..Len(items) : items[j].name # n]]

RECURSIVE ProcessWildcardsDatabase(_, _, _, _)
ProcessWildcardsDatabase(world, patterns, wildcards, calls) ==
  IF patterns = <<>> THEN [wildcards |-> wildcards, err |-> "", calls |-> calls]
  ELSE LET pattern == Head(patterns) IN
       IF ParseSchema(pattern) = <<>>
       THEN ProcessWildcardsDatabase(world, Tail(patterns), wildcards, calls)
       ELSE LET r == Discover(world, pattern)
                called == Append(calls, pattern)
            IN IF r.err \/ ~r.ok
               THEN [wildcards |-> wildcards, err |-> "DiscoveryError", calls |-> called]
               ELSE ProcessWildcardsDatabase(world, Tail(patterns),
                      Append(wildcards, [Pattern |-> pattern,
                                         StreamNames |-> ItemNames(r.items),
                                         Map |-> ItemMap(r.items)]), called)

RECURSIVE ProcessWildcardsFile(_, _, _, _)
ProcessWildcardsFile(world, patterns, wildcards, calls) ==
  IF patterns = <<>> THEN [wildcards |-> wildcards, err |-> "", calls |-> calls]
  ELSE LET pattern == Head(patterns)
           r == Discover(world, pattern)
           called == Append(calls, pattern)
       IN IF r.err \/ ~r.ok
          THEN [wildcards |-> wildcards, err |-> "DiscoveryError", calls |-> called]
          ELSE ProcessWildcardsFile(world, Tail(patterns),
                 Append(wildcards, [Pattern |-> pattern,
                                    StreamNames |-> ItemNames(r.items),
                                    Map |-> ItemMap(r.items)]), called)

----------------------------------------------------------------------------
(* ProcessWildcards *)

Star == <<"*">>

\* the stream is marked single, or inherits single from the defaults
TreatAsSingle(rd, stream) ==
  IF stream # Nil /\ stream[1].single # Nil THEN stream[1].single[1]
  ELSE rd.Defaults.single # Nil /\ rd.Defaults.single[1]

\* file_max_bytes and file_max_rows of the stream's own option bag are zero
FileMaxZero(stream) ==
  LET to == PtrVal(stream.target_options, TargetOptionsZero)
  IN PtrVal(to.file_max_bytes, 0) = 0 /\ PtrVal(to.file_max_rows, 0) = 0

\* first loop of ProcessWildcards: collect the patterns to expand
RECURSIVE CollectPatterns(_, _, _)
CollectPatterns(rd, i, patterns) ==
  IF i > Len(rd.streamsOrdered) THEN [rd |-> rd, patterns |-> patterns, err |-> ""]
  ELSE LET name == rd.streamsOrdered[i]
           stream == MapGet(rd.Streams, name, Nil)
       IN IF TreatAsSingle(rd, stream) THEN CollectPatterns(rd, i + 1, patterns)
          ELSE IF name = Star
          THEN [rd |-> rd, patterns |-> patterns, err |-> "InvalidWildcard"]
          ELSE IF hasWildcard(name)
          THEN LET s == SetStreamDefaults(name, PtrVal(stream, ReplicationStreamConfig), rd)
                   rd1 == ShareOptions(rd, name)
               IN IF ~ObjectHasStreamVars(s)
                  THEN IF stream = Nil
                       THEN [rd |-> rd1, patterns |-> patterns, err |-> "panic"]
                       ELSE LET cur == rd1.Streams[name][1]
                                value == FileMaxZero(cur)
                                rd2 == [rd1 EXCEPT !.Streams =
                                          MapPut(@, name, Ptr([cur EXCEPT !.single = Ptr(value)]))]
                            IN CollectPatterns(rd2, i + 1, patterns)
                  ELSE CollectPatterns(rd1, i + 1, Append(patterns, name))
          ELSE CollectPatterns(rd, i + 1, patterns)

\* inner loop of the merge: the streams of one wildcard
RECURSIVE AddWildcardStreams(_, _, _, _, _)
AddWildcardStreams(rd, wildcard, j, newStreamNames, isDb) ==
  IF j > Len(wildcard.StreamNames)
  THEN [rd |-> DeleteStream(rd, wildcard.Pattern), newStreamNames |-> newStreamNames]
  ELSE LET item == wildcard.Map[wildcard.StreamNames[j]]
           found == IF isDb THEN GetStream(rd, item.name) # {}
                    ELSE GetStream(rd, item.name) # {} \/ GetStream(rd, item.uri) # {}
       IN IF found THEN AddWildcardStreams(rd, wildcard, j + 1, newStreamNames, isDb)
          ELSE AddWildcardStreams(AddStream(rd, item.name, MapGet(rd.Streams, wildcard.Pattern, Nil)),
                                  wildcard, j + 1, Append(newStreamNames, item.name), isDb)

\* the order ProcessWildcards leaves when it forgets to install the new one
KeepOrder(rd, newStreamNames) == rd

\* rd.streamsOrdered = newStreamNames
SetOrder(rd, newStreamNames) == [rd EXCEPT !.streamsOrdered = newStreamNames]

\* outer loop of the merge: the original stream names in order
RECURSIVE ArrangeOrder(_, _, _, _, _, _)
ArrangeOrder(rd, originalStreamNames, i, wildcards, newStreamNames, isDb) ==
  IF i > Len(originalStreamNames) THEN SetOrder(rd, newStreamNames)
  ELSE LET origName == originalStreamNames[i]
           ws == {k \in 1..Len(wildcards) : wildcards[k].Pattern = origName}
       IN IF ws = {}
          THEN ArrangeOrder(rd, originalStreamNames, i + 1, wildcards,
                            Append(newStreamNames, origName), isDb)
          ELSE LET r == AddWildcardStreams(rd, wildcards[CHOOSE k \in ws : TRUE], 1,
                                           newStreamNames, isDb)
               IN ArrangeOrder(r.rd, originalStreamNames, i + 1, wildcards,
                               r.newStreamNames, isDb)

\* the merge when ProcessWildcards goes on after a failed discovery
MergeWildcardsAnyway(c, w, isDb) ==
  [rd |-> ArrangeOrder(c.rd, c.rd.streamsOrdered, 1, w.wildcards, <<>>, isDb),
   err |-> "", calls |-> w.calls]

\* the merge of the discovered wildcards w into the streams of c
MergeWildcards(c, w, isDb) ==
  IF w.err # "" THEN [rd |-> c.rd, err |-> w.err, calls |-> w.calls]
  ELSE [rd |-> ArrangeOrder(c.rd, c.rd.streamsOrdered, 1, w.wildcards, <<>>, isDb),
        err |-> "", calls |-> w.calls]

\* ProcessWildcards after its first loop, whose result is c: the lookup of the
\* source connection and the discovery
ExpandPatterns(c, world) ==
  IF c.err # "" THEN [rd |-> c.rd, err |-> c.err, calls |-> <<>>]
  ELSE IF c.patterns = <<>> THEN [rd |-> c.rd, err |-> "", calls |-> <<>>]
  ELSE IF world.conn = "badurl" THEN [rd |-> c.rd, err |-> "ConnectionError", calls |-> <<>>]
  ELSE IF world.conn = "missing" THEN [rd |-> c.rd, err |-> "", calls |-> <<>>]
  ELSE IF world.conn \notin {"db", "file"}
  THEN [rd |-> c.rd, err |-> "InvalidConnection", calls |-> <<>>]
  ELSE IF world.conn = "db"
  THEN MergeWildcards(c, ProcessWildcardsDatabase(world, c.patterns, <<>>, <<>>), TRUE)
  ELSE MergeWildcards(c, ProcessWildcardsFile(world, c.patterns, <<>>, <<>>), FALSE)

\* returns [rd, err, calls]: calls are the patterns handed to the Discoverer
ProcessWildcards(rd, world) == ExpandPatterns(CollectPatterns(rd, 1, <<>>), world)

----------------------------------------------------------------------------
(* RuntimeState *)

\* Config.GetFormatMap: the entries RuntimeState reads for a run
GetFormatMap(task) ==
  [stream_run_id |-> task.Env.stream_run_id, stream_name |-> task.StreamName,
   object_name |-> task.Target.Object]

\* the run id when stream_run_id of the format map is not looked at
RunIDOfName(task) == CleanName(Normalize(task.StreamName))

RunID(task) ==
  LET fMap == GetFormatMap(task)
      runID == CleanName(Normalize(task.StreamName))
  IN IF fMap.stream_run_id # <<>> THEN fMap.stream_run_id ELSE runID

\* a refresh that writes the entry of every task, present or not
RECURSIVE AddRunsOverwrite(_, _, _)
AddRunsOverwrite(runs, tasks, i) ==
  IF i > Len(tasks) THEN runs
  ELSE AddRunsOverwrite(MapPut(runs, RunID(tasks[i]),
                               [ID |-> RunID(tasks[i]), Status |-> "created",
                                Stream |-> [Name |-> GetFormatMap(tasks[i]).stream_name],
                                Object |-> [Name |-> GetFormatMap(tasks[i]).object_name]]),
                        tasks, i + 1)

RECURSIVE AddRuns(_, _, _)
AddRuns(runs, tasks, i) ==
  IF i > Len(tasks) THEN runs
  ELSE LET fMap == GetFormatMap(tasks[i])
           runID == RunID(tasks[i])
       IN IF runID \in DOMAIN runs THEN AddRuns(runs, tasks, i + 1)
          ELSE AddRuns(MapPut(runs, runID,
                              [ID |-> runID, Status |-> "created",
                               Stream |-> [Name |-> fMap.stream_name],
                               Object |-> [Name |-> fMap.object_name]]),
                       tasks, i + 1)

\* the source or target summary after the loop over the tasks: every task
\* assigns its connection type
RECURSIVE ConnSummary(_, _, _, _)
ConnSummary(conn, tasks, i, side) ==
  IF i > Len(tasks) THEN conn
  ELSE ConnSummary([conn EXCEPT !.Type = IF side = "source" THEN tasks[i].SrcConn.Type
                                         ELSE tasks[i].TgtConn.Type],
                   tasks, i + 1, side)

RuntimeState(rd) ==
  LET state == IF rd.state = Nil
               THEN [Runs |-> <<>>, Source |-> [Name |-> rd.Source, Type |-> ""],
                     Target |-> [Name |-> rd.Target, Type |-> ""]]
               ELSE rd.state[1]
  IN [rd EXCEPT !.state =
        Ptr(IF rd.Compiled
            THEN [state EXCEPT !.Runs = AddRuns(@, rd.Tasks, 1),
                               !.Source = ConnSummary(@, rd.Tasks, 1, "source"),
                               !.Target = ConnSummary(@, rd.Tasks, 1, "target")]
            ELSE state)]

----------------------------------------------------------------------------
(* Compile *)

\* SLING_STREAM_CNT is [set, atLeast, n]: unset, "n" or ">n"
testStreamCnt(streamCnt, expected) ==
  IF ~expected.set THEN ""
  ELSE IF expected.atLeast
       THEN (IF streamCnt <= expected.n THEN "AssertionError" ELSE "")
       ELSE (IF streamCnt # expected.n THEN "AssertionError" ELSE "")

\* Config.Prepare: the TaskPreparer accepts or rejects the task; it rejects
\* every task when the source connection is unknown
PrepareFails(world, cfg) == world.conn = "missing" \/ cfg.StreamName \in world.prepareFail

\* the scalar overrides of cfgOverwrite (offset, range, file_select, the
\* incremental value and env follow the pattern of limit and are left out)
Overwrite(stream, cfgOverwrite) ==
  IF cfgOverwrite = Nil THEN stream
  ELSE LET o == cfgOverwrite[1] IN
       [stream EXCEPT
          !.mode = IF o.Mode # "" /\ @ # o.Mode THEN o.Mode ELSE @,
          !.source_options = IF o.Limit # Nil THEN Ptr([@[1] EXCEPT !.limit = o.Limit]) ELSE @,
          !.update_key = IF o.UpdateKey # "" /\ @ # o.UpdateKey THEN o.UpdateKey ELSE @,
          !.primary_key = IF o.PrimaryKeyI # <<>> THEN o.PrimaryKeyI ELSE @]

\* the limit override is written through the option bag the stream shares
ShareLimit(rd, name, cfgOverwrite) ==
  LET p == MapGet(rd.Streams, name, Nil) IN
  IF cfgOverwrite = Nil \/ p = Nil THEN rd
  ELSE IF cfgOverwrite[1].Limit = Nil \/ p[1].source_options = Nil THEN rd
  ELSE [rd EXCEPT !.Streams = MapPut(@, name,
          Ptr([p[1] EXCEPT !.source_options = Ptr([@[1] EXCEPT !.limit = cfgOverwrite[1].Limit])]))]

\* the env of a task (rd.Env, which the documents leave empty) and a
\* connection that Prepare has not filled in
TaskEnvZero == [stream_run_id |-> <<>>]
ConnectionZero == [Type |-> ""]

\* Config.Prepare on a task it accepts: it resolves the connections of the task
Prepare(world, cfg) ==
  [cfg EXCEPT !.SrcConn = [Type |-> world.conn], !.TgtConn = [Type |-> "db"]]

\* the task of a stream, after the overrides
MakeTask(rd, name, stream) ==
  LET single == stream.single # Nil /\ stream.single[1]
      targetOptions == IF single
                       THEN [stream.target_options[1] EXCEPT !.file_max_bytes = Ptr(0),
                                                             !.file_max_rows = Ptr(0)]
                       ELSE stream.target_options[1]
  IN [Source |-> [Conn |-> rd.Source, Stream |-> name, Query |-> stream.sql,
                  Select |-> stream.select, Where |-> stream.where,
                  PrimaryKeyI |-> stream.primary_key, UpdateKey |-> stream.update_key,
                  Options |-> Ptr(stream.source_options[1])],
      Target |-> [Conn |-> rd.Target, Object |-> stream.object, Columns |-> stream.columns,
                  Options |-> Ptr(targetOptions)],
      Mode |-> stream.mode,
      Transforms |-> stream.transforms,
      Env |-> TaskEnvZero,
      StreamName |-> name,
      ReplicationStream |-> stream,
      SrcConn |-> ConnectionZero,
      TgtConn |-> ConnectionZero]

Intersects(tags, streamTags) == \E i \in 1..Len(tags) : tags[i] \in Range(streamTags)

\* the loop of Compile over StreamsOrdered; returns [rd, matchedStreams, err]
RECURSIVE CompileStreams(_, _, _, _, _, _, _, _)

\* the body of the loop when it skips every stream that is not matched, also
\* under an empty selection vector
CompileStreamMatchedOnly(rd1, i, stream, matchedStreams, includeTags, excludeTags, cfgOverwrite, selectStreams, world) ==
  IF stream.object = <<>>
  THEN [rd |-> rd1, matchedStreams |-> matchedStreams, err |-> "MissingTarget"]
  ELSE IF Normalize(rd1.streamsOrdered[i]) \notin matchedStreams
  THEN CompileStreams(rd1, i + 1, matchedStreams, includeTags, excludeTags,
                      cfgOverwrite, selectStreams, world)
  ELSE CompileStreams([rd1 EXCEPT !.Tasks = Append(@, MakeTask(rd1, rd1.streamsOrdered[i], stream))],
                      i + 1, matchedStreams, includeTags, excludeTags,
                      cfgOverwrite, selectStreams, world)

\* the body of the loop for the stream of position i: stream is the defaulted
\* copy of the stream, rd1 the config after the defaulting
CompileStream(rd1, i, stream, matchedStreams, includeTags, excludeTags, cfgOverwrite, selectStreams, world) ==
  LET name == rd1.streamsOrdered[i]
      withTag == IF Intersects(includeTags, stream.tags)
                 THEN matchedStreams \cup {Normalize(name)} ELSE matchedStreams
      matched1 == IF Intersects(excludeTags, stream.tags)
                  THEN withTag \ {Normalize(name)} ELSE withTag
  IN IF stream.object = <<>>
     THEN [rd |-> rd1, matchedStreams |-> matchedStreams, err |-> "MissingTarget"]
     ELSE IF Len(selectStreams) > 0 /\ Normalize(name) \notin matched1
     THEN CompileStreams(rd1, i + 1, matched1, includeTags, excludeTags,
                         cfgOverwrite, selectStreams, world)
     ELSE LET rd2 == ShareLimit(rd1, name, cfgOverwrite)
              cfg == MakeTask(rd2, name, Overwrite(stream, cfgOverwrite))
          IN IF PrepareFails(world, cfg)
             THEN [rd |-> rd2, matchedStreams |-> matched1, err |-> "PrepareError"]
             ELSE CompileStreams([rd2 EXCEPT !.Tasks = Append(@, Prepare(world, cfg))], i + 1, matched1,
                                 includeTags, excludeTags, cfgOverwrite, selectStreams, world)

CompileStreams(rd, i, matchedStreams, includeTags, excludeTags, cfgOverwrite, selectStreams, world) ==
  IF i > Len(rd.streamsOrdered) THEN [rd |-> rd, matchedStreams |-> matchedStreams, err |-> ""]
  ELSE CompileStream(ShareOptions(rd, rd.streamsOrdered[i]), i,
                     SetStreamDefaults(rd.streamsOrdered[i],
                                       PtrVal(MapGet(rd.Streams, rd.streamsOrdered[i], Nil),
                                              ReplicationStreamConfig), rd),
                     matchedStreams, includeTags, excludeTags, cfgOverwrite, selectStreams, world)

TagsOf(selectStreams, prefix) ==
  LET tagged == SelectSeq(selectStreams, LAMBDA t : HasPrefix(t, prefix))
  IN [i \in 1..Len(tagged) |-> TrimPrefix(tagged[i], prefix)]

\* the stream count assertion on the compiled config rd3
AssertStreamCnt(rd3, matchedStreams, calls, selectStreams, world) ==
  [rd |-> rd3,
   err |-> testStreamCnt(IF Len(selectStreams) > 0 THEN Cardinality(matchedStreams)
                         ELSE Cardinality(DOMAIN rd3.Streams), world.streamCnt),
   calls |-> calls]

\* Compile after its loop, whose result is c
FinishCompile(c, calls, selectStreams, world) ==
  IF c.err # "" THEN [rd |-> c.rd, err |-> c.err, calls |-> calls]
  ELSE AssertStreamCnt(RuntimeState([c.rd EXCEPT !.Compiled = TRUE]), c.matchedStreams,
                       calls, selectStreams, world)

\* Compile after ProcessWildcards, whose result is pw
CompileSelected(pw, cfgOverwrite, selectStreams, world) ==
  IF pw.err # "" THEN pw
  ELSE IF \E i \in 1..Len(selectStreams) : MatchStreamsPanics(pw.rd, selectStreams[i])
  THEN [rd |-> pw.rd, err |-> "panic", calls |-> pw.calls]
  ELSE IF Len(TagsOf(selectStreams, TagPrefix)) > 0 /\ Len(TagsOf(selectStreams, NotTagPrefix)) > 0
  THEN [rd |-> pw.rd, err |-> "ConflictingTags", calls |-> pw.calls]
  ELSE FinishCompile(
         CompileStreams(pw.rd, 1,
                        UNION {{Normalize(k) : k \in MatchStreams(pw.rd, selectStreams[i])} :
                                 i \in 1..Len(selectStreams)},
                        TagsOf(selectStreams, TagPrefix), TagsOf(selectStreams, NotTagPrefix),
                        cfgOverwrite, selectStreams, world),
         pw.calls, selectStreams, world)

\* returns [rd, err, calls]; err is "" when Compile returns nil, "panic" when
\* it does not return
Compile(rd, cfgOverwrite, selectStreams, world) ==
  IF rd.Compiled
  THEN [rd |-> IF Len(selectStreams) > 0
               THEN [rd EXCEPT !.Tasks = SelectSeq(@, LAMBDA task :
                                            task.StreamName \in Range(selectStreams))]
               ELSE rd,
        err |-> "", calls |-> <<>>]
  ELSE CompileSelected(ProcessWildcards(rd, world), cfgOverwrite, selectStreams, world)

----------------------------------------------------------------------------
(* LoadReplicationConfig.  root is the set of keys of the root mapping of   *)
(* the YAML document; SLING_REPLICATION_TASKS is Nil when it is not set and *)
(* otherwise points to [valid, tasks], tasks being the JSON objects of the  *)
(* payload when it parses.                                                  *)

RootKeys == {"source", "target", "defaults", "hooks", "streams"}

\* the root key checks without the one for streams
MissingRootKeyButStreams(root) ==
  IF "source" \notin root THEN "source"
  ELSE IF "target" \notin root THEN "target"
  ELSE ""

\* the mandatory root key that UnmarshalReplication does not find, "" if none
MissingRootKey(root) ==
  IF "source" \notin root THEN "source"
  ELSE IF "target" \notin root THEN "target"
  ELSE IF "streams" \notin root THEN "streams"
  ELSE ""

\* the document as UnmarshalReplication reads it: defaults = g.M() when the
\* key is absent, and no stream when streams is absent
RootValues(yaml, root) ==
  [defaults |-> IF "defaults" \in root THEN yaml.defaults ELSE <<>>,
   order |-> IF "streams" \in root THEN yaml.order ELSE <<>>,
   streams |-> IF "streams" \in root THEN yaml.streams ELSE <<>>]

\* the zero value of the named return value config
ReplicationConfigZero ==
  [Source |-> "", Target |-> "", Defaults |-> ReplicationStreamConfig, Streams |-> <<>>,
   Tasks |-> <<>>, Compiled |-> FALSE, streamsOrdered |-> <<>>,
   maps |-> [Defaults |-> {}, Streams |-> <<>>], state |-> Nil]

\* UnmarshalReplication from the check of the root keys on: [config, err]
ParseReplication(yaml, root) ==
  IF MissingRootKey(root) # ""
  THEN [config |-> ReplicationConfigZero, err |-> "MissingKey"]
  ELSE [config |-> UnmarshalReplication(RootValues(yaml, root), "SRC"), err |-> ""]

\* g.Unmarshal of one task of the payload into a Config
UnmarshalTask(j) ==
  [Source |-> [Conn |-> j.source.conn, Stream |-> j.source.stream, Query |-> "",
               Select |-> <<>>, Where |-> "", PrimaryKeyI |-> <<>>, UpdateKey |-> "",
               Options |-> Ptr(j.source.options)],
   Target |-> [Conn |-> j.target.conn, Object |-> j.target.object, Columns |-> <<>>,
               Options |-> Ptr(j.target.options)],
   Mode |-> j.mode,
   Transforms |-> <<>>,
   Env |-> [stream_run_id |-> j.env.stream_run_id],
   StreamName |-> j.stream_name,
   ReplicationStream |-> ReplicationStreamConfig,
   SrcConn |-> [Type |-> j.src_conn.type],
   TgtConn |-> [Type |-> j.tgt_conn.type]]

\* the payload is loaded but the config is not marked compiled
LoadTasksOnly(u, payload) ==
  IF u.err # "" \/ payload = Nil THEN u
  ELSE IF ~payload[1].valid THEN [config |-> u.config, err |-> "InvalidTasks"]
  ELSE [config |-> [u.config EXCEPT
                      !.Tasks = [i \in 1..Len(payload[1].tasks) |->
                                   UnmarshalTask(payload[1].tasks[i])]],
        err |-> ""]

\* LoadReplicationConfig after UnmarshalReplication, whose result is u
LoadTasks(u, payload) ==
  IF u.err # "" \/ payload = Nil THEN u
  ELSE IF ~payload[1].valid THEN [config |-> u.config, err |-> "InvalidTasks"]
  ELSE [config |-> [u.config EXCEPT
                      !.Tasks = [i \in 1..Len(payload[1].tasks) |->
                                   UnmarshalTask(payload[1].tasks[i])],
                      !.Compiled = TRUE],
        err |-> ""]

\* returns [config, err]
LoadReplicationConfig(yaml, root, world) ==
  LoadTasks(ParseReplication(yaml, root), world.tasksEnv)

----------------------------------------------------------------------------
(* The option bags of the task descriptors *)

\* the fields of the option bags, by side of the descriptor
OptionFields == {<<"source", "limit">>, <<"target", "file_max_bytes">>,
                 <<"target", "file_max_rows">>}

\* the cell of field f of the option bag a task would have if Compile handed
\* the bag of the stream to the descriptor: a field that the stream took from
\* the defaults is the cell of the defaults
SharedOptionCell(rd, m, side, f) ==
  LET opts == IF side = "source" THEN rd.Defaults.source_options
              ELSE rd.Defaults.target_options
  IN IF opts # Nil /\ opts[1][f] # Nil THEN <<"defaults", 0, side, f>>
     ELSE <<"task", m, side, f>>

\* the cell of field f of the option bag of one side of the descriptor of
\* task m: Compile re-serialises the bags of the stream into the descriptor,
\* which allocates the bag and its fields for this task
OptionCell(rd, m, side, f) == <<"task", m, side, f>>

\* the option bag of one side of task m after v is written to cell c
BagWithCell(rd, m, side, bag, c, v) ==
  [f \in DOMAIN bag |-> IF OptionCell(rd, m, side, f) = c THEN v ELSE bag[f]]

\* task m after v is written to cell c
TaskWithCell(rd, m, c, v) ==
  [rd.Tasks[m] EXCEPT
     !.Source.Options = Ptr(BagWithCell(rd, m, "source", @[1], c, v)),
     !.Target.Options = Ptr(BagWithCell(rd, m, "target", @[1], c, v))]

----------------------------------------------------------------------------
(* Inputs: stream keys, discovered names, selector tokens *)

K_sa == <<"s", ".", "a">>
K_SA == <<"S", ".", "A">>
K_sb == <<"s", ".", "b">>
K_sc == <<"s", ".", "c">>
K_sd == <<"s", ".", "d">>
K_tc == <<"t", ".", "c">>
Q_SA == <<DoubleQuote, "S", DoubleQuote, ".", DoubleQuote, "A", DoubleQuote>>
W_s == <<"s", ".", "*">>
W_t == <<"t", ".", "*">>
W_ns == <<"t", "*">>

TagX == <<"x">>
TagY == <<"y">>
ID1 == <<"i", "d", "1">>

T_tagX == TagPrefix \o TagX
T_notTagX == NotTagPrefix \o TagX
T_notTagY == NotTagPrefix \o TagY
T_bsa == <<Backtick>> \o K_sa \o <<Backtick>>
T_Ws == <<"S", ".", "*">>
T_qWs == <<DoubleQuote, "s", DoubleQuote, ".", "*">>
T_ID1 == <<"I", "D", "1">>

\* selector tokens compared by the selection properties
Tokens == {K_sa, K_SA, T_bsa, K_sb, W_s, T_Ws, T_qWs, ID1, T_ID1, T_tagX}

\* the selection vectors Compile is called with
SelectVectors ==
  {<<>>, <<K_sa>>, <<K_SA>>, <<K_sb>>, <<W_s>>, <<ID1>>, <<T_tagX>>, <<T_notTagX>>,
   <<T_tagX, T_notTagY>>, <<K_sa, T_notTagX>>}

NoOverwrite == Nil
ModeOverwrite == Ptr([Mode |-> "incremental", UpdateKey |-> "", PrimaryKeyI |-> <<>>, Limit |-> Nil])

\* the (cfgOverwrite, selectStreams) pairs Compile is called with
CompileInputs ==
  {[cfgOverwrite |-> NoOverwrite, selectStreams |-> sel] : sel \in SelectVectors}
    \cup {[cfgOverwrite |-> ModeOverwrite, selectStreams |-> <<>>]}

----------------------------------------------------------------------------
(* Inputs: YAML documents *)

Tbl == <<"tbl">>
TblVar == <<"{stream_table}">>

Y_obj == [object |-> Tbl]
Y_objVar == [object |-> TblVar]
Y_objVarZero == [object |-> TblVar, where |-> "", tags |-> <<>>, disabled |-> FALSE]
Y_tagX == [object |-> Tbl, tags |-> <<TagX>>, id |-> ID1]
Y_tagY == [object |-> Tbl, tags |-> <<TagY>>]
Y_noObj == [object |-> <<>>]
Y_single == [object |-> Tbl, single |-> Ptr(TRUE)]
Y_notSingle == [object |-> Tbl, single |-> Ptr(FALSE)]
Y_fileMax == [object |-> Tbl, target_options |-> Ptr([file_max_bytes |-> Ptr(5), file_max_rows |-> Nil])]
Y_zero ==
  [mode |-> "", object |-> Tbl, select |-> <<>>, where |-> "", primary_key |-> <<>>,
   update_key |-> "", sql |-> "", schedule |-> "", tags |-> <<>>, disabled |-> FALSE,
   single |-> Nil, transforms |-> <<>>, columns |-> <<>>, hooks |-> HookMapZero]

D_none == <<>>
D_full ==
  [mode |-> "full-refresh", object |-> <<"{target_schema}", ".", "{stream_table}">>,
   select |-> <<"c1">>, where |-> "w", primary_key |-> <<"id">>, update_key |-> "u",
   sql |-> "q", schedule |-> "daily", tags |-> <<TagY>>, disabled |-> TRUE,
   transforms |-> <<"t">>, columns |-> << <<"c1", "int">> >>,
   hooks |-> [pre |-> <<"h">>, post |-> <<>>],
   source_options |-> Ptr([limit |-> Ptr(10)]),
   target_options |-> Ptr([file_max_bytes |-> Ptr(100), file_max_rows |-> Nil])]
D_obj == [object |-> Tbl,
          target_options |-> Ptr([file_max_bytes |-> Ptr(100), file_max_rows |-> Nil])]
D_single == [object |-> Tbl, single |-> Ptr(TRUE)]

DefaultsYamls == {D_none, D_full, D_obj, D_single}

Entry(key, value) == [key |-> key, value |-> value]

MakeYaml(entries, defaults) ==
  [defaults |-> defaults,
   order |-> [i \in 1..Len(entries) |-> entries[i].key],
   streams |-> [k \in {entries[i].key : i \in 1..Len(entries)} |->
                  (CHOOSE e \in Range(entries) : e.key = k).value]]

InjectiveSeqs(S, lo, hi) ==
  UNION {{q \in [1..n -> S] : \A i, j \in 1..n : i # j => q[i] # q[j]} : n \in lo..hi}

Insert(q, pos, e) == SubSeq(q, 1, pos - 1) \o <<e>> \o SubSeq(q, pos, Len(q))

Min(a, b) == IF a < b THEN a ELSE b

\* first family: one stream with an arbitrary mapping among at most
\* MaxStreams - 1 ordinary streams
FocusEntries ==
  {Entry(K_sa, v) : v \in {YamlNull, Ptr(Y_obj), Ptr(Y_tagX), Ptr(Y_zero), Ptr(Y_noObj)}}
    \cup {Entry(W_s, v) : v \in {YamlNull, Ptr(Y_obj), Ptr(Y_objVar), Ptr(Y_single),
                                 Ptr(Y_notSingle), Ptr(Y_fileMax), Ptr(Y_objVarZero)}}
    \cup {Entry(W_ns, Ptr(Y_objVar))}
    \cup {Entry(Star, v) : v \in {YamlNull, Ptr(Y_obj), Ptr(Y_single), Ptr(Y_notSingle)}}

Fillers == {Entry(K_sb, Ptr(Y_tagY)), Entry(K_SA, Ptr(Y_tagX))}

FocusYamls ==
  {MakeYaml(Insert(q, pos, e), d) :
     <<q, pos, e, d>> \in
       {t \in InjectiveSeqs(Fillers, 0, Min(MaxStreams - 1, Cardinality(Fillers)))
               \X (1..MaxStreams) \X FocusEntries \X DefaultsYamls :
          t[2] <= Len(t[1]) + 1}}

\* second family: at least three streams, wildcards among ordinary streams
PlainKeys == <<K_sa, K_sb, K_sd>>
OrderPlain == {PlainKeys[i] : i \in 1..Min(MaxOrder - 2, Len(PlainKeys))}
Rank(k) == CHOOSE i \in 1..Len(PlainKeys) : PlainKeys[i] = k

OrderEntry(k) == IF hasWildcard(k) THEN Entry(k, Ptr(Y_objVar)) ELSE Entry(k, Ptr(Y_tagX))

OrderYamls ==
  {MakeYaml([i \in 1..Len(q) |-> OrderEntry(q[i])], D_none) :
     q \in {o \in InjectiveSeqs(OrderPlain \cup {W_s, W_t}, 3, MaxOrder) :
              /\ \E i \in 1..Len(o) : hasWildcard(o[i])
              /\ \A i, j \in 1..Len(o) :
                   (i < j /\ o[i] \in OrderPlain /\ o[j] \in OrderPlain) => Rank(o[i]) < Rank(o[j])}}

\* third family: documents compiled under a rejecting TaskPreparer or a stream
\* count assertion
SmallYamls ==
  {MakeYaml(q, D_none) :
     q \in {<<Entry(K_sa, Ptr(Y_obj)), Entry(K_sb, Ptr(Y_tagY))>>,
            <<Entry(K_sa, Ptr(Y_tagX)), Entry(K_sb, Ptr(Y_tagY)), Entry(K_SA, Ptr(Y_obj))>>,
            <<Entry(K_sa, Ptr(Y_tagX)), Entry(K_sb, Ptr(Y_tagX)), Entry(K_sd, Ptr(Y_tagY))>>,
            <<Entry(W_s, Ptr(Y_objVar)), Entry(K_sb, Ptr(Y_tagY))>>,
            <<Entry(K_sa, Ptr(Y_tagX)), Entry(W_s, Ptr(Y_objVar)), Entry(K_sb, Ptr(Y_tagY))>>}}

----------------------------------------------------------------------------
(* Inputs: environments *)

Item(name) == [name |-> name, uri |-> <<"f", ":">> \o name]

Found(names) == [err |-> FALSE, ok |-> TRUE, items |-> [i \in 1..Len(names) |-> Item(names[i])]]
Failed == [err |-> TRUE, ok |-> FALSE, items |-> <<>>]

Catalog(s, t) == [p \in {W_s, W_t, W_ns} |-> IF p = W_s THEN s ELSE t]

Cat1 == Catalog(Found(<<K_sc, K_sd>>), Found(<<K_tc>>))
Cat2 == Catalog(Found(<<K_sc, Q_SA, K_sb, K_sc>>), Found(<<K_sc, K_tc>>))
Cat3 == Catalog(Failed, Found(<<K_tc>>))
Cat4 == Catalog(Found(<<K_sc>>), NoDiscovery)

Unset == [set |-> FALSE, atLeast |-> FALSE, n |-> 0]
Exactly(n) == [set |-> TRUE, atLeast |-> FALSE, n |-> n]
MoreThan(n) == [set |-> TRUE, atLeast |-> TRUE, n |-> n]

World(conn, catalog, prepareFail, streamCnt) ==
  [conn |-> conn, catalog |-> catalog, prepareFail |-> prepareFail, streamCnt |-> streamCnt,
   tasksEnv |-> Nil]

BaseWorld == World("db", Cat1, {}, Unset)

OrderWorlds ==
  {World(c, cat, {}, Unset) : c \in {"db", "file"}, cat \in {Cat1, Cat2, Cat3, Cat4}}
    \cup {World(c, Cat1, {}, Unset) : c \in {"missing", "badurl", "api"}}

SmallWorlds ==
  {World("db", Cat1, {K_sb}, Unset), World("db", Cat1, {K_sd}, Unset),
   World("db", Cat1, {}, Exactly(1)),
   World("db", Cat1, {}, Exactly(2)), World("db", Cat1, {}, MoreThan(1)),
   World("db", Cat1, {}, MoreThan(2)), World("db", Cat2, {K_sb}, Unset)}

\* fourth family: a serialised task list in SLING_REPLICATION_TASKS
RunID1 == <<"r", "1">>

JsonTask(name, type, runID) ==
  [stream_name |-> name, mode |-> "",
   source |-> [conn |-> "SRC", stream |-> name, options |-> SourceOptionsZero],
   target |-> [conn |-> "TGT", object |-> Tbl, options |-> TargetOptionsZero],
   env |-> [stream_run_id |-> runID],
   src_conn |-> [type |-> type], tgt_conn |-> [type |-> "db"]]

Payloads ==
  {[valid |-> FALSE, tasks |-> <<>>],
   [valid |-> TRUE, tasks |-> <<JsonTask(K_sc, "db", <<>>), JsonTask(K_sd, "file", <<>>)>>],
   [valid |-> TRUE, tasks |-> <<JsonTask(K_sa, "db", RunID1), JsonTask(K_SA, "db", <<>>),
                                JsonTask(K_sb, "db", <<>>)>>]}

PrecompiledYamls ==
  {MakeYaml(q, D_none) :
     q \in {<<Entry(W_s, Ptr(Y_objVar)), Entry(K_sb, Ptr(Y_tagY))>>,
            <<Entry(K_sa, Ptr(Y_tagX)), Entry(K_sb, Ptr(Y_tagY))>>}}

PrecompiledInputs ==
  {[yaml |-> y, root |-> RootKeys, world |-> [BaseWorld EXCEPT !.tasksEnv = Ptr(p)]] :
     y \in PrecompiledYamls, p \in Payloads}

\* fifth family: documents whose root lacks some of the root keys
RootInputs ==
  {[yaml |-> MakeYaml(<<Entry(K_sa, Ptr(Y_obj)), Entry(K_sb, Ptr(Y_tagY))>>, d),
    root |-> r, world |-> BaseWorld] : r \in SUBSET RootKeys, d \in {D_none, D_obj}}

----------------------------------------------------------------------------
(* State *)

VARIABLES
  rd,            \* the ReplicationConfig
  world,         \* its environment
  loaded,        \* the ReplicationConfig as UnmarshalReplication returned it
  calls,         \* number of Compile calls made
  lastInput,     \* the (cfgOverwrite, selectStreams) of the last Compile call
  lastErr,       \* what the last Compile call returned
  lastCalls,     \* the patterns the last Compile call handed to the Discoverer
  wasCompiled,   \* rd.Compiled at the start of the last Compile call
  touched,       \* what the caller has changed on the compiled config, Nil if nothing
  root,          \* the keys of the root mapping of the YAML document
  loadErr,       \* what LoadReplicationConfig returned
  edits,         \* number of AddStream, DeleteStream and ProcessWildcards calls made
  duck,          \* the DuckDb: [connected, mutex, query, queries]
  proc,          \* its process and scanner: [stdout, stderr, stdOutWriter, closed,
                 \*   errTimer, eofTimer, eofPending]
  callers        \* the goroutines that use the DuckDb: caller -> [pc, todo, dq]

vars == <<rd, world, loaded, calls, lastInput, lastErr, lastCalls, wasCompiled, touched,
          root, loadErr, edits, duck, proc, callers>>

\* what the calls of Compile and of the users of a compiled config leave alone
aside == <<edits, duck, proc, callers>>

\* NewDuckDb: not connected, no query; no process yet; no caller has called
DuckDbZero == [connected |-> FALSE, mutex |-> 0, query |-> 0, queries |-> <<>>]
ProcZero ==
  [stdout |-> <<>>, stderr |-> <<>>, stdOutWriter |-> 0, closed |-> {},
   errTimer |-> 0, eofTimer |-> 0, eofPending |-> {}]
CallersZero == [c \in 1..NumCallers |-> [pc |-> "idle", todo |-> <<>>, dq |-> 0]]

Inputs ==
  (FocusYamls \X {BaseWorld}) \cup (OrderYamls \X OrderWorlds) \cup (SmallYamls \X SmallWorlds)

LoadInputs ==
  {[yaml |-> in[1], root |-> RootKeys, world |-> in[2]] : in \in Inputs}
    \cup PrecompiledInputs \cup RootInputs

Init ==
  /\ \E in \in LoadInputs :
       /\ rd = LoadReplicationConfig(in.yaml, in.root, in.world).config
       /\ loadErr = LoadReplicationConfig(in.yaml, in.root, in.world).err
       /\ world = in.world
       /\ root = in.root
  /\ loaded = rd
  /\ calls = 0
  /\ lastInput = [cfgOverwrite |-> NoOverwrite, selectStreams |-> <<>>]
  /\ lastErr = ""
  /\ lastCalls = <<>>
  /\ wasCompiled = FALSE
  /\ touched = Nil
  /\ edits = 0
  /\ duck = DuckDbZero /\ proc = ProcZero /\ callers = CallersZero

CompileCall(in) ==
  /\ loadErr = ""
  /\ calls < MaxCalls
  /\ lastErr # "panic"
  /\ IF touched = Nil THEN TRUE ELSE touched[1].kind = "status"
  /\ LET r == Compile(rd, in.cfgOverwrite, in.selectStreams, world) IN
       /\ rd' = r.rd
       /\ lastErr' = r.err
       /\ lastCalls' = r.calls
  /\ calls' = calls + 1
  /\ lastInput' = in
  /\ wasCompiled' = rd.Compiled
  /\ UNCHANGED <<world, loaded, touched, root, loadErr>>
  /\ UNCHANGED aside

\* the caller assigns field f of the option bag of one side of the descriptor
\* of task n; the assignment is seen through every descriptor that holds the
\* same cell
SetTaskOption(n, side, f) ==
  /\ calls >= 1 /\ calls <= MaxTouchCalls
  /\ lastErr # "panic"
  /\ touched = Nil
  /\ n \in 1..Len(rd.Tasks)
  /\ rd' = [rd EXCEPT !.Tasks = [m \in 1..Len(rd.Tasks) |->
                TaskWithCell(rd, m, OptionCell(rd, n, side, f), Ptr(7))]]
  /\ touched' = Ptr([kind |-> "option", n |-> n, side |-> side, f |-> f,
                      id |-> <<>>, refreshed |-> FALSE])
  /\ UNCHANGED <<world, loaded, calls, lastInput, lastErr, lastCalls, wasCompiled,
                 root, loadErr>>
  /\ UNCHANGED aside

\* the run entries of the runtime state
Runs(r) == IF r.state = Nil THEN <<>> ELSE r.state[1].Runs

\* the runner starts the run id: it writes the status of the RunState that
\* the runtime state holds under id
SetRunStatus(id) ==
  /\ calls >= 1 /\ calls <= MaxTouchCalls
  /\ lastErr # "panic"
  /\ touched = Nil
  /\ id \in DOMAIN Runs(rd)
  /\ rd' = [rd EXCEPT !.state = Ptr([@[1] EXCEPT !.Runs[id].Status = "running"])]
  /\ touched' = Ptr([kind |-> "status", n |-> 0, side |-> "", f |-> "",
                      id |-> id, refreshed |-> FALSE])
  /\ UNCHANGED <<world, loaded, calls, lastInput, lastErr, lastCalls, wasCompiled,
                 root, loadErr>>
  /\ UNCHANGED aside

\* a caller asks for the runtime state
Refresh ==
  /\ loadErr = ""
  /\ lastErr # "panic"
  /\ rd' = RuntimeState(rd)
  /\ touched' = IF touched = Nil THEN Nil ELSE Ptr([touched[1] EXCEPT !.refreshed = TRUE])
  /\ UNCHANGED <<world, loaded, calls, lastInput, lastErr, lastCalls, wasCompiled,
                 root, loadErr>>
  /\ UNCHANGED aside

Next ==
  \/ \E in \in CompileInputs : CompileCall(in)
  \/ \E n \in 1..Len(rd.Tasks) : \E sf \in OptionFields : SetTaskOption(n, sf[1], sf[2])
  \/ \E id \in DOMAIN Runs(rd) : SetRunStatus(id)
  \/ Refresh

Spec == Init /\ [][Next]_vars

----------------------------------------------------------------------------
(* The stream map and the stream order under AddStream, DeleteStream and    *)
(* ProcessWildcards, called by a user of the config before any Compile      *)

EditKeys == {K_sa, K_sc, W_s}
EditConfigs == {Nil, Ptr(UnmarshalStream(Y_tagX))}

unedited == <<world, loaded, calls, lastInput, lastCalls, wasCompiled, touched, root, loadErr,
              duck, proc, callers>>

AddStreamCall(key, cfg) ==
  /\ loadErr = "" /\ lastErr = "" /\ edits < MaxEdits
  /\ rd' = AddStream(rd, key, cfg)
  /\ edits' = edits + 1
  /\ UNCHANGED lastErr
  /\ UNCHANGED unedited

DeleteStreamCall(key) ==
  /\ loadErr = "" /\ lastErr = "" /\ edits < MaxEdits
  /\ rd' = DeleteStream(rd, key)
  /\ edits' = edits + 1
  /\ UNCHANGED lastErr
  /\ UNCHANGED unedited

ProcessWildcardsCall ==
  /\ loadErr = "" /\ lastErr = "" /\ edits < MaxEdits
  /\ rd' = ProcessWildcards(rd, world).rd
  /\ lastErr' = ProcessWildcards(rd, world).err
  /\ edits' = edits + 1
  /\ UNCHANGED unedited

NextStreams ==
  \/ \E key \in EditKeys : \E cfg \in EditConfigs : AddStreamCall(key, cfg)
  \/ \E key \in EditKeys : DeleteStreamCall(key)
  \/ ProcessWildcardsCall

SpecStreams == Init /\ [][NextStreams]_vars

----------------------------------------------------------------------------
(* DuckDb.  A query is its index in duck.queries, 0 is nil; duck.mutex is   *)
(* duck.Context's lock, 0 when free and otherwise the caller that holds it. *)
(* A query is [err, started, done, errBy, doneBy]: errBy and doneBy are the *)
(* queries whose output made the scanner set err and done.  The process     *)
(* answers a statement with the start marker and the end marker on stdout   *)
(* and, when the statement fails, with a line on stderr; a line is [q, kind] *)
(* for the query q that it answers.  The scanner has stdOutWriter (the      *)
(* query whose pipe it writes to, 0 when nil), the closed pipes, errTimer   *)
(* (the query whose line armed it, 0 when not armed), eofTimer (the handle  *)
(* of the last timer started for an end marker) and eofPending (the timers  *)
(* for an end marker that have not fired).  The rows of a result, which     *)
(* the scanner copies to the pipe, and the cancelling of a context are left *)
(* out.  A caller is at pc idle, lock, newQuery, submit, wait (ExecContext) *)
(* or reading (StreamContext, which has handed out the datastream), and     *)
(* todo are the queries its call still has to run.                          *)

replication == <<rd, world, loaded, calls, lastInput, lastErr, lastCalls, wasCompiled,
                 touched, root, loadErr, edits>>

duckDbQuery == [err |-> FALSE, started |-> FALSE, done |-> FALSE, errBy |-> {}, doneBy |-> {}]

\* the queries of a call: Open runs "select 1" through Exec when the DuckDb is
\* not connected, and StreamContext runs Describe, a stream of its own,
\* unless the statement is a describe or a pragma
Queries(kind, connected) ==
  (IF connected THEN <<>> ELSE <<"exec">>)
    \o (IF kind = "describedStream" THEN <<"stream", "stream">> ELSE <<kind>>)

\* the queries that the callers 1..c still have to start
RECURSIVE Pending(_)
Pending(c) ==
  IF c = 0 THEN 0
  ELSE Pending(c - 1) + Len(callers[c].todo) - (IF callers[c].pc \in {"lock", "newQuery"} THEN 0 ELSE
                                                 IF callers[c].todo = <<>> THEN 0 ELSE 1)

\* the caller c enters ExecContext or StreamContext; Open marks the DuckDb
\* connected
Call(c, kind) ==
  /\ callers[c].pc = "idle"
  /\ Len(duck.queries) + Pending(NumCallers) + Len(Queries(kind, duck.connected)) <= MaxQueries
  /\ callers' = [callers EXCEPT ![c] = [pc |-> "lock", todo |-> Queries(kind, duck.connected),
                                         dq |-> 0]]
  /\ duck' = [duck EXCEPT !.connected = TRUE]
  /\ UNCHANGED proc
  /\ UNCHANGED replication

\* duck.Context.Lock()
Lock(c) ==
  /\ callers[c].pc = "lock"
  /\ duck.mutex = 0
  /\ duck' = [duck EXCEPT !.mutex = c]
  /\ callers' = [callers EXCEPT ![c].pc = "newQuery"]
  /\ UNCHANGED proc
  /\ UNCHANGED replication

newQuery(c) ==
  /\ callers[c].pc = "newQuery"
  /\ duck' = [duck EXCEPT !.queries = Append(@, duckDbQuery), !.query = Len(duck.queries) + 1]
  /\ callers' = [callers EXCEPT ![c].pc = "submit", ![c].dq = Len(duck.queries) + 1]
  /\ UNCHANGED proc
  /\ UNCHANGED replication

\* the caller leaves the query that it ran: it unlocks and goes on with the
\* next query of its call, or returns when there is none or the query failed
Leave(c, failed) ==
  [callers EXCEPT ![c] = IF failed \/ Len(@.todo) <= 1
                         THEN [pc |-> "idle", todo |-> <<>>, dq |-> @.dq]
                         ELSE [pc |-> "lock", todo |-> Tail(@.todo), dq |-> @.dq]]

\* SubmitSQL writes the statement to stdin; the process answers it, after
\* the statements before it; failed: the statement gives an error
SubmitSQL(c, written, failed) ==
  /\ callers[c].pc = "submit"
  /\ IF written
     THEN /\ proc' = [proc EXCEPT
                        !.stdout = @ \o <<[q |-> callers[c].dq, kind |-> "SOF"],
                                           [q |-> callers[c].dq, kind |-> "EOF"]>>,
                        !.stderr = IF failed THEN Append(@, [q |-> callers[c].dq, kind |-> "ERR"])
                                   ELSE @]
          /\ callers' = [callers EXCEPT ![c].pc = IF Head(callers[c].todo) = "exec" THEN "wait"
                                                   ELSE "reading"]
          /\ UNCHANGED duck
     ELSE /\ ~failed
          /\ duck' = [duck EXCEPT !.mutex = 0]
          /\ callers' = Leave(c, TRUE)
          /\ UNCHANGED proc
  /\ UNCHANGED replication

\* waitForResult returns when it sees err or done on its query; ExecContext
\* unlocks
waitForResult(c) ==
  /\ callers[c].pc = "wait"
  /\ duck.queries[callers[c].dq].err \/ duck.queries[callers[c].dq].done
  /\ duck' = [duck EXCEPT !.mutex = 0]
  /\ callers' = Leave(c, duck.queries[callers[c].dq].err)
  /\ UNCHANGED proc
  /\ UNCHANGED replication

\* the datastream of a StreamContext call ends when the pipe of its query is
\* closed; its deferred function unlocks
DatastreamEnds(c) ==
  /\ callers[c].pc = "reading"
  /\ callers[c].dq \in proc.closed
  /\ duck' = [duck EXCEPT !.mutex = 0]
  /\ callers' = Leave(c, duck.queries[callers[c].dq].err)
  /\ UNCHANGED proc
  /\ UNCHANGED replication

\* the scanner ignores a line when there is no query or the query is done
Ignored == duck.query = 0 \/ duck.queries[duck.query].done

\* the scanner function on a line of stdout
ScanStdout ==
  /\ proc.stdout # <<>>
  /\ LET line == Head(proc.stdout) IN
     IF Ignored
     THEN /\ proc' = [proc EXCEPT !.stdout = Tail(@)]
          /\ UNCHANGED duck
     ELSE IF line.kind = "EOF"
     THEN /\ proc' = [proc EXCEPT !.stdout = Tail(@), !.eofTimer = line.q,
                                   !.eofPending = @ \cup {line.q}]
          /\ UNCHANGED duck
     ELSE /\ proc' = [proc EXCEPT !.stdout = Tail(@), !.stdOutWriter = duck.query]
          /\ duck' = [duck EXCEPT !.queries[duck.query].started = TRUE]
  /\ UNCHANGED callers
  /\ UNCHANGED replication

\* the scanner function on a line of stderr: it stops both timers and starts
\* the error timer
ScanStderr ==
  /\ proc.stderr # <<>>
  /\ IF Ignored
     THEN proc' = [proc EXCEPT !.stderr = Tail(@)]
     ELSE proc' = [proc EXCEPT !.stderr = Tail(@), !.errTimer = Head(proc.stderr).q,
                               !.eofPending = @ \ {proc.eofTimer}, !.eofTimer = 0]
  /\ UNCHANGED <<duck, callers>>
  /\ UNCHANGED replication

\* the scanner after resetWriter()
resetWriter(p) ==
  [p EXCEPT !.stdOutWriter = 0,
            !.closed = IF p.stdOutWriter # 0 THEN @ \cup {p.stdOutWriter} ELSE @]

\* the error timer fires: duck.query.err is set, then resetWriter()
ErrTimerFires ==
  /\ proc.errTimer # 0
  /\ duck' = [duck EXCEPT !.queries[duck.query] =
                 [@ EXCEPT !.err = TRUE, !.done = TRUE,
                           !.errBy = @ \cup {proc.errTimer}, !.doneBy = @ \cup {proc.errTimer}]]
  /\ proc' = [resetWriter(proc) EXCEPT !.errTimer = 0]
  /\ UNCHANGED callers
  /\ UNCHANGED replication

\* a timer started for an end marker fires: resetWriter()
EofTimerFires(t) ==
  /\ t \in proc.eofPending
  /\ duck' = [duck EXCEPT !.queries[duck.query] =
                 [@ EXCEPT !.done = TRUE, !.doneBy = @ \cup {t}]]
  /\ proc' = [resetWriter(proc) EXCEPT !.eofPending = @ \ {t}]
  /\ UNCHANGED callers
  /\ UNCHANGED replication

NextDuck ==
  \/ \E c \in 1..NumCallers : \E kind \in {"exec", "stream", "describedStream"} : Call(c, kind)
  \/ \E c \in 1..NumCallers : Lock(c)
  \/ \E c \in 1..NumCallers : newQuery(c)
  \/ \E c \in 1..NumCallers : \E written, failed \in BOOLEAN : SubmitSQL(c, written, failed)
  \/ \E c \in 1..NumCallers : waitForResult(c)
  \/ \E c \in 1..NumCallers : DatastreamEnds(c)
  \/ ScanStdout
  \/ ScanStderr
  \/ ErrTimerFires
  \/ \E t \in proc.eofPending : EofTimerFires(t)

\* a new DuckDb; the replication variables hold a config that was not loaded
InitDuck ==
  /\ duck = DuckDbZero /\ proc = ProcZero /\ callers = CallersZero
  /\ rd = ReplicationConfigZero /\ loaded = rd /\ world = BaseWorld
  /\ root = {} /\ loadErr = "MissingKey"
  /\ calls = 0 /\ lastInput = [cfgOverwrite |-> NoOverwrite, selectStreams |-> <<>>]
  /\ lastErr = "" /\ lastCalls = <<>> /\ wasCompiled = FALSE /\ touched = Nil /\ edits = 0

SpecDuck == InitDuck /\ [][NextDuck]_vars

----------------------------------------------------------------------------
(* Properties *)

Errors == {"InvalidWildcard", "ConnectionError", "InvalidConnection", "DiscoveryError",
           "ConflictingTags", "MissingTarget", "PrepareError", "AssertionError"}

Index(q, x) == CHOOSE i \in 1..Len(q) : q[i] = x

Names(tasks) == [i \in 1..Len(tasks) |-> tasks[i].StreamName]

TaskNames == Names(rd.Tasks)

YamlKeys == DOMAIN loaded.Streams

\* the stream of the YAML document after defaulting
LoadedStream(k) ==
  SetStreamDefaults(k, PtrVal(loaded.Streams[k], ReplicationStreamConfig), loaded)

FreshCompile(in) == Compile(loaded, in.cfgOverwrite, in.selectStreams, world)

\* C1: Compile(sel1) then Compile(sel2) on one config leaves the tasks that a
\* fresh copy of the config has after Compile(sel2) alone
C1_IdempotentRecompile ==
  (calls >= 2 /\ wasCompiled /\ lastErr = "") =>
    TaskNames = Names(FreshCompile(lastInput).rd.Tasks)

\* C2: whenever Compile returns an error the config has compiled = false and
\* an empty task list
C2_NoPartialTaskList ==
  lastErr \in Errors => (~rd.Compiled /\ rd.Tasks = <<>>)

\* the value of a recognised field that a task carries
TaskField(task, F) ==
  CASE F = "mode" -> task.Mode
    [] F = "object" -> task.Target.Object
    [] F = "select" -> task.Source.Select
    [] F = "where" -> task.Source.Where
    [] F = "primary_key" -> task.Source.PrimaryKeyI
    [] F = "update_key" -> task.Source.UpdateKey
    [] F = "sql" -> task.Source.Query
    [] F = "transforms" -> task.Transforms
    [] F = "columns" -> task.Target.Columns
    [] F = "single" -> PtrVal(task.ReplicationStream.single, FALSE)
    [] OTHER -> task.ReplicationStream[F]

YamlField(cfg, F) == IF F = "single" THEN PtrVal(cfg.single, FALSE) ELSE cfg[F]

\* C3: a task carries the stream's value of every recognised field whose key
\* is in the stream's YAML mapping, and the defaults value of every other one
C3_PresenceOverZero ==
  (calls = 1 /\ lastErr = "" /\ lastInput.cfgOverwrite = NoOverwrite) =>
    \A i \in 1..Len(rd.Tasks) : \A F \in DefaultSetKeys :
      LET k == rd.Tasks[i].StreamName IN
      k \in YamlKeys =>
        TaskField(rd.Tasks[i], F) =
          IF F \in loaded.maps.Streams[k] THEN YamlField(loaded.Streams[k][1], F)
          ELSE YamlField(loaded.Defaults, F)

\* a wildcard key of the YAML document whose defaulted object has no stream placeholder
PlainObjectWildcard(k) ==
  /\ k \in YamlKeys /\ hasWildcard(k) /\ k # Star
  /\ LoadedStream(k).object # <<>>
  /\ ~ObjectHasStreamVars(LoadedStream(k))

\* C4: Compile completes with exactly one task, named as the pattern, for
\* every wildcard key (mapping or null) whose defaulted object has no stream
\* placeholder, and never asks the Discoverer about it
C4_SingleShortCircuit ==
  (calls = 1 /\ lastInput.selectStreams = <<>>) =>
    \A k \in YamlKeys : PlainObjectWildcard(k) =>
      /\ lastErr # "panic"
      /\ lastErr = "" => Cardinality({i \in 1..Len(rd.Tasks) : TaskNames[i] = k}) = 1
      /\ k \notin Range(lastCalls)

\* C5: the task of a wildcard stream that is auto-detected as single (no
\* single key, no stream placeholder in the object, no file_max_bytes or
\* file_max_rows on the stream) has file_max_bytes = 0 and file_max_rows = 0
C5_SingleAutoDetection ==
  (calls = 1 /\ lastErr = "") =>
    \A i \in 1..Len(rd.Tasks) :
      LET k == TaskNames[i] IN
      (/\ PlainObjectWildcard(k)
       /\ loaded.Streams[k] # Nil
       /\ "single" \notin loaded.maps.Streams[k]
       /\ FileMaxZero(loaded.Streams[k][1]))
      => /\ PtrVal(rd.Tasks[i].Target.Options[1].file_max_bytes, 0) = 0
         /\ PtrVal(rd.Tasks[i].Target.Options[1].file_max_rows, 0) = 0

\* the streams that survive the selection of the last Compile call
Surviving == Range(Names(FreshCompile(lastInput).rd.Tasks))

\* C6: the tasks of two non-wildcard streams of the YAML document that both
\* survive selection are in the order of the document
C6_OrderPreservation ==
  lastErr = "" =>
    \A i, j \in 1..Len(rd.Tasks) :
      LET A == TaskNames[i]
          B == TaskNames[j]
      IN (/\ A \in YamlKeys /\ B \in YamlKeys
          /\ ~hasWildcard(A) /\ ~hasWildcard(B)
          /\ A \in Surviving /\ B \in Surviving
          /\ Index(loaded.streamsOrdered, A) < Index(loaded.streamsOrdered, B))
         => i < j

\* the wildcards that the first Compile call has expanded
Expanded == IF calls = 1 /\ lastErr # "DiscoveryError" THEN Range(lastCalls) ELSE {}

Discovered(W) == ItemNames(Discover(world, W).items)

\* the streams added by expanding W: the new entries of the stream order that
\* W discovered and no expanded wildcard before W did
Added(W) ==
  {n \in Range(rd.streamsOrdered) \ Range(loaded.streamsOrdered) :
     /\ n \in Range(Discovered(W))
     /\ \A V \in Expanded :
          Index(loaded.streamsOrdered, V) < Index(loaded.streamsOrdered, W)
            => n \notin Range(Discovered(V))}

Before(q, x, y) == Index(q, x) < Index(q, y)

ExpandableWildcard(k) ==
  /\ k \in YamlKeys /\ hasWildcard(k)
  /\ ObjectHasStreamVars(LoadedStream(k))
  /\ ~TreatAsSingle(loaded, loaded.Streams[k])
  /\ world.conn = "db" => ParseSchema(k) # <<>>

\* C8: after a Compile without error no expandable wildcard key is the name
\* of a task, a key of the stream map or an entry of the stream order
C8_ExpandedKeysDisappear ==
  (calls >= 1 /\ lastErr = "") =>
    \A k \in YamlKeys : ExpandableWildcard(k) =>
      /\ k \notin Range(TaskNames)
      /\ k \notin DOMAIN rd.Streams
      /\ k \notin Range(rd.streamsOrdered)

\* C9: a config whose streams contain the key * is rejected with the
\* must-specify-schema-or-path error
C9_BareStarRejected ==
  (calls >= 1 /\ Star \in YamlKeys) => lastErr \in {"InvalidWildcard", "panic"}

\* C10: two selector tokens that differ only in case or quoting select the
\* same tasks, on a fresh and on a compiled config
C10_SelectionSymmetry ==
  lastErr # "panic" =>
    \A t1, t2 \in Tokens :
      Normalize(t1) = Normalize(t2) =>
        Compile(rd, NoOverwrite, <<t1>>, world).rd.Tasks
          = Compile(rd, NoOverwrite, <<t2>>, world).rd.Tasks

\* the first Compile call has reached the stream count assertion
Asserted == calls = 1 /\ world.streamCnt.set /\ lastErr \in {"", "AssertionError"}

\* C11: with SLING_STREAM_CNT set to N, Compile passes the assertion exactly
\* when the number of tasks at the end of the call is N
C11_StreamCntIsTaskCount ==
  (Asserted /\ ~world.streamCnt.atLeast) =>
    (lastErr = "" <=> Len(rd.Tasks) = world.streamCnt.n)

\* C12: without selection the stream count is the number of streams; with
\* SLING_STREAM_CNT set to >N the assertion passes exactly when the count is
\* at least N, with N exactly when the count is N
C12_AtLeast ==
  (Asserted /\ lastInput.selectStreams = <<>>) =>
    (lastErr = "" <=>
       IF world.streamCnt.atLeast
       THEN Cardinality(DOMAIN rd.Streams) >= world.streamCnt.n
       ELSE Cardinality(DOMAIN rd.Streams) = world.streamCnt.n)

\* the stream of the (expanded) config after defaulting
Defaulted(k) ==
  SetStreamDefaults(k, PtrVal(MapGet(rd.Streams, k, Nil), ReplicationStreamConfig), rd)

\* the stream k is in the positive set of the selection vector sel
Selected(k, sel) ==
  \/ Len(sel) = 0
  \/ /\ \/ \E i \in 1..Len(sel) : k \in MatchStreams(rd, sel[i])
         \/ Intersects(TagsOf(sel, TagPrefix), Defaulted(k).tags)
      /\ ~Intersects(TagsOf(sel, NotTagPrefix), Defaulted(k).tags)

\* a stream that survives the selection of the last call has no object
MissingTargetSelected ==
  \E k \in Range(rd.streamsOrdered) :
     Defaulted(k).object = <<>> /\ Selected(k, lastInput.selectStreams)

\* C13: Compile fails with the need-to-specify-object error only when a
\* stream that survives selection has an empty object after defaulting, and
\* does not succeed when one has
C13_MissingTargetOnlySurviving ==
  calls = 1 =>
    /\ lastErr = "MissingTarget" => MissingTargetSelected
    /\ lastErr = "" => ~MissingTargetSelected

\* the wildcard keys of the YAML document that have been expanded and removed
Removed == {W \in YamlKeys : hasWildcard(W) /\ W \notin DOMAIN rd.Streams}

\* a stream of the YAML document whose key is equal, after normalisation, to a
\* name discovered for an expanded wildcard
Overridden(k) ==
  /\ k \in YamlKeys /\ ~hasWildcard(k)
  /\ \E W \in Removed : \E i \in 1..Len(Discover(world, W).items) :
       LET item == Discover(world, W).items[i] IN
       \/ Normalize(item.name) = Normalize(k)
       \/ world.conn = "file" /\ Normalize(item.uri) = Normalize(k)

\* the keys of a stream map that are equal to k after normalisation
SameKeys(streams, k) == {x \in DOMAIN streams : Normalize(x) = Normalize(k)}

Count(q, x) == Cardinality({i \in 1..Len(q) : q[i] = x})

\* C14: a stream whose key a discovered name is equal to keeps its config and
\* its place in the stream order among the streams of the YAML document, no
\* entry is added for the discovered name, and tasks has the stream once
C14_UserOverrideWins ==
  \A k \in YamlKeys : Overridden(k) =>
    /\ k \in DOMAIN rd.Streams /\ rd.Streams[k] = loaded.Streams[k]
    /\ SameKeys(rd.Streams, k) = SameKeys(loaded.Streams, k)
    /\ Count(rd.streamsOrdered, k) = 1
    /\ \A A \in (YamlKeys \cap DOMAIN rd.Streams) \ {k} :
         Before(loaded.streamsOrdered, A, k) <=> Before(rd.streamsOrdered, A, k)
    /\ lastErr = "" => Count(TaskNames, k) <= 1
    /\ (calls = 1 /\ lastErr = "" /\ lastInput.selectStreams = <<>>) => Count(TaskNames, k) = 1

BothTags(sel) == Len(TagsOf(sel, TagPrefix)) > 0 /\ Len(TagsOf(sel, NotTagPrefix)) > 0

\* the errors of ProcessWildcards, which Compile runs before it reads the
\* selection vector
WildcardErrors == {"InvalidWildcard", "ConnectionError", "InvalidConnection", "DiscoveryError"}

\* C16: a Compile call whose selection vector has a tag: token and a -tag:
\* token, and that returns and has processed the wildcards without error,
\* returns the conflicting-tags error and the config has no task
C16_ConflictingTags ==
  (/\ calls >= 1 /\ BothTags(lastInput.selectStreams)
   /\ lastErr \notin WildcardErrors \cup {"panic"}) =>
    (lastErr = "ConflictingTags" /\ rd.Tasks = <<>>)

\* the selection vector is made of tag: tokens only
OnlyTags(sel) == Len(sel) > 0 /\ \A i \in 1..Len(sel) : HasPrefix(sel[i], TagPrefix)

\* the streams, in stream order, whose tags after defaulting intersect the
\* include tags of sel
Tagged(sel) ==
  SelectSeq(rd.streamsOrdered,
            LAMBDA k : Intersects(TagsOf(sel, TagPrefix), Defaulted(k).tags))

\* C17: after a first Compile with tag: tokens only the tasks are exactly the
\* streams whose tags after defaulting intersect the tags of the tokens, in
\* stream order
C17_TagInclude ==
  (calls = 1 /\ lastErr = "" /\ OnlyTags(lastInput.selectStreams)) =>
    TaskNames = Tagged(lastInput.selectStreams)

DiscoveryFailed ==
  \E i \in 1..Len(lastCalls) :
     Discover(world, lastCalls[i]).err \/ ~Discover(world, lastCalls[i]).ok

\* C19: when the Discoverer fails for a pattern Compile returns the discovery
\* error, and then the keys of the stream map and the stream order are those
\* of the YAML document and the config is not compiled
C19_DiscoveryFailureAborts ==
  /\ (calls >= 1 /\ DiscoveryFailed) => lastErr = "DiscoveryError"
  /\ lastErr = "DiscoveryError" =>
       /\ DOMAIN rd.Streams = DOMAIN loaded.Streams
       /\ rd.streamsOrdered = loaded.streamsOrdered
       /\ ~rd.Compiled /\ rd.Tasks = <<>>

\* the Discoverer has failed for the second pattern after it answered the first
C19_Witness ==
  /\ lastErr = "DiscoveryError" /\ Len(lastCalls) >= 2
  /\ Discover(world, lastCalls[1]).ok /\ Len(Discover(world, lastCalls[1]).items) >= 1

\* C20: once a RunState exists under a run id, a RuntimeState() call, and a
\* Compile call, which ends with one, leaves it as it is: the status the
\* runner has set and its stream and object parts; only the runner changes it
C20_RefreshKeepsRuns ==
  [][(~ \E id \in DOMAIN Runs(rd) : SetRunStatus(id))
       => \A id \in DOMAIN Runs(rd) :
            id \in DOMAIN Runs(rd') /\ Runs(rd')[id] = Runs(rd)[id]]_vars

\* the runner has started the run of a task of the compiled config, and the
\* runtime state has been asked for since
C20_Witness ==
  /\ touched # Nil /\ touched[1].kind = "status" /\ touched[1].refreshed
  /\ rd.Compiled
  /\ \E m \in 1..Len(rd.Tasks) : RunID(rd.Tasks[m]) = touched[1].id
  /\ Runs(rd)[touched[1].id].Status = "running"

\* C29: after a successful Compile the runs map has one entry per task, whose
\* stream part names the stream of that task, also when two stream names
\* have the same run id
C29_RunPerTask ==
  (calls = 1 /\ lastErr = "") =>
    /\ Cardinality(DOMAIN Runs(rd)) = Len(rd.Tasks)
    /\ \A m \in 1..Len(rd.Tasks) :
         \E id \in DOMAIN Runs(rd) : Runs(rd)[id].Stream.Name = TaskNames[m]

\* the type that the summary of one side holds, "" when it holds none
Held(r, side) == IF r.state = Nil THEN "" ELSE r.state[1][side].Type

TypeOf(task, side) == IF side = "Source" THEN task.SrcConn.Type ELSE task.TgtConn.Type

\* the first type that the tasks give to the summary of one side
FirstType(tasks, side) ==
  LET given == SelectSeq(tasks, LAMBDA t : TypeOf(t, side) # "")
  IN IF given = <<>> THEN "" ELSE TypeOf(given[1], side)

\* C21: a field of the source or target summary that holds a value is not
\* changed by a later refresh, and a field that a task of a refresh has
\* filled is not changed by a later task of the same refresh
C21_RefreshKeepsSummary ==
  [][\A side \in {"Source", "Target"} :
       /\ Held(rd, side) # "" => Held(rd', side) = Held(rd, side)
       /\ (Held(rd, side) = "" /\ Held(rd', side) # "")
            => Held(rd', side) = FirstType(rd'.Tasks, side)]_vars

\* a character of a sanitised name
CleanChars == {"a", "b", "c", "d", "i", "s", "t", "x", "1", "_"}

\* C22: the run entry of a compiled task is under the stream_run_id of the
\* task when it has one, and otherwise under its stream name without quotes,
\* in lower case and with an underscore for every other character
C22_RunIdDerivation ==
  (rd.Compiled /\ rd.state # Nil) =>
    \A m \in 1..Len(rd.Tasks) :
      LET task == rd.Tasks[m]
          name == Normalize(task.StreamName)
          id == IF task.Env.stream_run_id # <<>> THEN task.Env.stream_run_id
                ELSE [i \in 1..Len(name) |-> IF name[i] \in CleanChars THEN name[i] ELSE "_"]
      IN /\ id \in DOMAIN Runs(rd)
         /\ Runs(rd)[id].ID = id
         /\ task.Env.stream_run_id = <<>> => Range(id) \subseteq CleanChars

\* the runs of a task with a stream_run_id and of a task without one, whose
\* name has an upper case letter, are in the runtime state
C22_Witness ==
  /\ rd.Compiled /\ rd.state # Nil
  /\ \E m, n \in 1..Len(rd.Tasks) :
       /\ rd.Tasks[m].Env.stream_run_id # <<>>
       /\ rd.Tasks[m].Env.stream_run_id \in DOMAIN Runs(rd)
       /\ rd.Tasks[n].Env.stream_run_id = <<>>
       /\ rd.Tasks[n].StreamName # Normalize(rd.Tasks[n].StreamName)

\* SLING_REPLICATION_TASKS holds a task list that parses
Precompiled == world.tasksEnv # Nil /\ world.tasksEnv[1].valid

\* a task without its option bags
Stripped(task) == [task EXCEPT !.Source.Options = Nil, !.Target.Options = Nil]

\* C23: when SLING_REPLICATION_TASKS holds a valid task list,
\* LoadReplicationConfig returns a compiled config whose tasks are that list,
\* and no later Compile call asks the Discoverer or builds a task
C23_PrecompiledBypass ==
  Precompiled =>
    /\ loadErr = "" /\ loaded.Compiled
    /\ Len(loaded.Tasks) = Len(world.tasksEnv[1].tasks)
    /\ \A m \in 1..Len(loaded.Tasks) :
         LET j == world.tasksEnv[1].tasks[m] IN
         /\ loaded.Tasks[m].StreamName = j.stream_name
         /\ loaded.Tasks[m].Source.Stream = j.source.stream
         /\ loaded.Tasks[m].Target.Object = j.target.object
         /\ loaded.Tasks[m].Env.stream_run_id = j.env.stream_run_id
    /\ rd.Compiled /\ lastCalls = <<>>
    /\ \A m \in 1..Len(rd.Tasks) :
         \E n \in 1..Len(loaded.Tasks) : Stripped(rd.Tasks[m]) = Stripped(loaded.Tasks[n])

\* Compile has been called with all streams selected on a config loaded with
\* a task list, whose document has a wildcard that the source can expand
C23_Witness ==
  /\ Precompiled /\ calls >= 1 /\ lastInput.selectStreams = <<>>
  /\ \E k \in YamlKeys : ExpandableWildcard(k) /\ Discover(world, k).ok
  /\ rd.Tasks # <<>>

\* C24: UnmarshalReplication returns an error exactly when source, target or
\* streams is absent from the root of the document; a document without
\* defaults or hooks loads, with empty defaults
C24_MandatoryRootKeys ==
  /\ loadErr = "MissingKey" <=> ~({"source", "target", "streams"} \subseteq root)
  /\ ({"source", "target", "streams"} \subseteq root /\ world.tasksEnv = Nil) => loadErr = ""
  /\ (loadErr = "" /\ "defaults" \notin root) =>
       (loaded.Defaults = ReplicationStreamConfig /\ loaded.maps.Defaults = {})

\* a document without defaults and hooks has been loaded and compiled
C24_Witness ==
  /\ root = {"source", "target", "streams"}
  /\ loadErr = "" /\ calls >= 1 /\ lastErr = "" /\ Len(rd.Tasks) = 2

\* C25: the task of a stream added by expanding the wildcard W has, in every
\* recognised field, the value of the defaulted config of W: a field that the
\* YAML mapping of W sets to its zero value is zero in the task
C25_ExpandedClonesWildcard ==
  (calls = 1 /\ lastErr = "" /\ lastInput.cfgOverwrite = NoOverwrite) =>
    \A W \in Expanded : \A i \in 1..Len(rd.Tasks) :
      TaskNames[i] \in Added(W) =>
        \A F \in DefaultSetKeys :
          TaskField(rd.Tasks[i], F) = YamlField(LoadedStream(W), F)

\* the selection vector is made of name or glob tokens and -tag: tokens, with
\* at least one of each
NamesAndExcludes(sel) ==
  /\ TagsOf(sel, TagPrefix) = <<>>
  /\ Len(TagsOf(sel, NotTagPrefix)) > 0
  /\ Len(TagsOf(sel, NotTagPrefix)) < Len(sel)

\* a name or glob token of sel matches the stream k
NameMatched(k, sel) ==
  \E i \in 1..Len(sel) : ~HasPrefix(sel[i], NotTagPrefix) /\ k \in MatchStreams(rd, sel[i])

\* the stream k has a tag that sel excludes
Excluded(k, sel) == Intersects(TagsOf(sel, NotTagPrefix), Defaulted(k).tags)

\* C26: after a first Compile with name or glob tokens and -tag: tokens, no
\* stream with an excluded tag has a task, and every stream that a name or
\* glob token matches and that has no excluded tag has one
C26_ExcludeOverridesName ==
  (/\ calls = 1 /\ ~wasCompiled /\ lastErr = ""
   /\ NamesAndExcludes(lastInput.selectStreams)) =>
    \A k \in Range(rd.streamsOrdered) :
      /\ Excluded(k, lastInput.selectStreams) => k \notin Range(TaskNames)
      /\ (NameMatched(k, lastInput.selectStreams) /\ ~Excluded(k, lastInput.selectStreams))
           => k \in Range(TaskNames)

\* the selection vector is made of -tag: tokens only, none of which is the
\* key or the id of a stream
OnlyExcludes(sel) ==
  /\ Len(sel) > 0
  /\ \A i \in 1..Len(sel) :
       /\ HasPrefix(sel[i], NotTagPrefix)
       /\ \A k \in DOMAIN rd.Streams :
            /\ Normalize(k) # Normalize(sel[i])
            /\ rd.Streams[k] # Nil => rd.Streams[k][1].id # sel[i]

\* C27: a Compile call whose selection vector is made of -tag: tokens only
\* skips every stream, whatever its tags: it adds no task, and a config that
\* had no task has none after the call
C27_OnlyExcludesSelectNothing ==
  [][\A in \in CompileInputs :
       (OnlyExcludes(in.selectStreams) /\ CompileCall(in)) =>
         /\ Len(rd'.Tasks) <= Len(rd.Tasks)
         /\ \A m \in 1..Len(rd'.Tasks) : rd'.Tasks[m] = rd.Tasks[m]]_vars

\* a first Compile with -tag:x only has returned without error on a config
\* that has a stream with the tag x and a stream without it
C27_Witness ==
  /\ calls = 1 /\ ~wasCompiled /\ lastErr = "" /\ lastInput.selectStreams = <<T_notTagX>>
  /\ rd.Tasks = <<>>
  /\ \E k, l \in Range(rd.streamsOrdered) :
       /\ TagX \in Range(Defaulted(k).tags)
       /\ TagX \notin Range(Defaulted(l).tags)

\* C28: after any sequence of AddStream, DeleteStream and ProcessWildcards
\* calls the stream order has no key twice and its keys are the keys of the
\* stream map
C28_OrderMatchesMap ==
  /\ \A i, j \in 1..Len(rd.streamsOrdered) :
       rd.streamsOrdered[i] = rd.streamsOrdered[j] => i = j
  /\ Range(rd.streamsOrdered) = DOMAIN rd.Streams

\* the process has not yet given the whole answer to the query q, or the
\* scanner has not yet read it
Active(q) == \E i \in 1..Len(proc.stdout) : proc.stdout[i] = [q |-> q, kind |-> "EOF"]

\* C30: at most one query is active, no query is active after duck.query has
\* been replaced, and the scanner sets err and done of a query only for the
\* output of that query
C30_OneQueryAtATime ==
  /\ Cardinality({q \in 1..Len(duck.queries) : Active(q)}) <= 1
  /\ \A q \in 1..Len(duck.queries) : Active(q) => q = duck.query
  /\ \A q \in 1..Len(duck.queries) :
       duck.queries[q].errBy \subseteq {q} /\ duck.queries[q].doneBy \subseteq {q}

====
